---- MODULE Spec2Model ----
(***************************************************************************)
(* Memento (undo/redo) plugin of jQuery Sketchable,                        *)
(* src/jquery.sketchable.memento.js.                                       *)
(*                                                                         *)
(* The history is the private pair (stack, stpos) of MementoCanvas.  The   *)
(* drawing surface is the canvas bitmap and the live stroke list           *)
(* data.strokes.  undo()/redo() move stpos at once and start an image      *)
(* decode (new Image(); .src = ...); the surface is repainted later, when  *)
(* the decode's onload callback runs restore().                            *)
(*                                                                         *)
(* Indices are the 0-based indices of the JavaScript source; the TLA+      *)
(* sequence element at index i is At(s, i) = s[i + 1].                     *)
(***************************************************************************)
EXTENDS Integers, Sequences, FiniteSets, Bags, TLC

\* ------------------------------------------------------------------ bounds
MaxStack   == 3   \* longest history explored
MaxPending == 2   \* most decodes in flight at once
MaxIdent   == 1   \* largest touch identifier delivered with a release event

\* The strokes the user draws, each drawn at most once in a run.
Strokes == {"s1"}

VARIABLES
  stack,      \* var stack: sequence of [image, strokes]           (line 23)
  stpos,      \* var stpos: 0-based cursor, -1 when empty           (line 24)
  canvas,     \* the surface's bitmap: the strokes inked on it, in order
  strokes,    \* data.strokes, the surface's live stroke list
  pending,    \* bag of the Image objects whose onload has not fired yet
  listening,  \* keyManager is attached to document keypress
  phase,      \* "new" (constructed), "live" (attached), "destroyed"
  drawn,      \* the strokes drawn so far
  captures,   \* history: non-continuation save() calls since the last reset
  savesOnly,  \* history: only save() was called since the history was last
              \* initialised or reset
  last,       \* history: the operation that produced this state
  scenario    \* history: how many steps of the walk-through of section 8 the
              \* run has followed so far, -1 once it has left it

vars == <<stack, stpos, canvas, strokes, pending, listening, phase, drawn,
          captures, savesOnly, last, scenario>>

\* -------------------------------------------------------------- data model
At(s, i) == s[i + 1]

InRange(s, i) == i >= 0 /\ i <= Len(s) - 1

Blank == << >>

\* elem[0].toDataURL(): the bitmap serialised as a PNG data URL.
toDataURL(bitmap) == [mime |-> "image/png", bits |-> bitmap]

\* Image decode of a data URL followed by drawImage(snapshot, 0, 0) on a
\* cleared canvas: the pixels the URL carries.
decodeBitmap(url) == url.bits

\* new Image() with .src set: the decode request in flight.  target is the
\* cursor value the request was issued for (history, not read by the code).
Image(src, target) == [src |-> src, target |-> target]

\* The event argument of save(evt).  present = FALSE is save() with no
\* argument; identifier = -1 is an event without an identifier field
\* (undefined > 0 is false in JavaScript, as is -1 > 0).
NoEvent == [present |-> FALSE, identifier |-> -1]

Events == {NoEvent} \cup {[present |-> TRUE, identifier |-> i] : i \in -1..MaxIdent}

\* Keypress events: Ctrl+Z, Ctrl+Shift+Z, Ctrl+Y, Ctrl with another key, and
\* Z and Y without Ctrl.
Key(ctrl, shift, which) == [ctrlKey |-> ctrl, shiftKey |-> shift, which |-> which]

Keys == {Key(TRUE, FALSE, 26), Key(TRUE, TRUE, 26), Key(TRUE, FALSE, 25),
         Key(TRUE, FALSE, 27), Key(FALSE, FALSE, 26), Key(FALSE, FALSE, 25)}

\* The record kept in last.  op names the operation; pos is the cursor it
\* found; err is the error it threw, if any; id is the event identifier for
\* "save" (-1 without one), the cursor the decode was issued for for
\* "restore", and for "redo" the cursor before the undo() it follows at once
\* (-1 when it follows another operation).
Op(name, id, pos, err) == [op |-> name, id |-> id, pos |-> pos, err |-> err]

\* The walk-through of section 8: attach, a primary-pointer release, a second
\* pointer's release, undo, undo, redo, clear.  Step(k, l) holds when the
\* operation recorded in l is its k-th step.
Step(k, l) ==
  CASE k = 1 -> l.op = "attach"
    [] k = 2 -> l.op = "save" /\ l.id <= 0
    [] k = 3 -> l.op = "save" /\ l.id > 0
    [] k = 4 -> l.op = "undo"
    [] k = 5 -> l.op = "undo"
    [] k = 6 -> l.op = "redo"
    [] k = 7 -> l.op = "clear"
    [] OTHER -> FALSE

\* Strokes being drawn, decode completions and keys that trigger nothing do
\* not interrupt the walk-through; any other operation out of turn ends it.
Advance(k, l) ==
  IF l.op \in {"draw", "restore", "keypress"} THEN k
  ELSE IF k >= 0 /\ Step(k + 1, l) THEN k + 1
  ELSE -1

\* ------------------------------------------------------------ MementoCanvas
\* The continuation test taking the baseline identifier 0 for a continuation.
isContinuation_fromZero(evt) == evt.present /\ evt.identifier >= 0

\* if (evt && evt.identifier > 0)
isContinuation(evt) == evt.present /\ evt.identifier > 0

\* save() setting the cursor to stack.length after the push.
save_cursorPastEnd(st, pos, bitmap, strks, evt) ==
  IF isContinuation(evt)
  THEN IF InRange(st, pos)
       THEN [stack |-> [st EXCEPT ![pos + 1].strokes = strks],
             stpos |-> pos, err |-> "none"]
       ELSE [stack |-> st, stpos |-> pos, err |-> "TypeError"]
  ELSE [stack |-> Append(st, [image |-> toDataURL(bitmap), strokes |-> strks]),
        stpos |-> Len(st) + 1, err |-> "none"]

\* save() pushing a snapshot for continuation events too.
save_alwaysPush(st, pos, bitmap, strks, evt) ==
  [stack |-> Append(st, [image |-> toDataURL(bitmap), strokes |-> strks]),
   stpos |-> pos + 1, err |-> "none"]

\* save() merging the live strokes into the entry's instead of replacing them.
save_merge(st, pos, bitmap, strks, evt) ==
  IF isContinuation(evt)
  THEN IF InRange(st, pos)
       THEN [stack |-> [st EXCEPT ![pos + 1].strokes = @ \o strks],
             stpos |-> pos, err |-> "none"]
       ELSE [stack |-> st, stpos |-> pos, err |-> "TypeError"]
  ELSE [stack |-> Append(st, [image |-> toDataURL(bitmap), strokes |-> strks]),
        stpos |-> pos + 1, err |-> "none"]

\* save() dropping the entries ahead of the cursor before it pushes.
save_truncate(st, pos, bitmap, strks, evt) ==
  IF isContinuation(evt)
  THEN IF InRange(st, pos)
       THEN [stack |-> [st EXCEPT ![pos + 1].strokes = strks],
             stpos |-> pos, err |-> "none"]
       ELSE [stack |-> st, stpos |-> pos, err |-> "TypeError"]
  ELSE [stack |-> Append(SubSeq(st, 1, pos + 1),
                         [image |-> toDataURL(bitmap), strokes |-> strks]),
        stpos |-> pos + 1, err |-> "none"]

\* save() refreshing the entry's image too on a continuation.
save_reencode(st, pos, bitmap, strks, evt) ==
  IF isContinuation(evt)
  THEN IF InRange(st, pos)
       THEN [stack |-> [st EXCEPT ![pos + 1] =
                          [image |-> toDataURL(bitmap), strokes |-> strks]],
             stpos |-> pos, err |-> "none"]
       ELSE [stack |-> st, stpos |-> pos, err |-> "TypeError"]
  ELSE [stack |-> Append(st, [image |-> toDataURL(bitmap), strokes |-> strks]),
        stpos |-> pos + 1, err |-> "none"]

\* this.save: the result of save(evt) on history (st, pos) with the surface
\* showing bitmap / strks.  stack[stpos] with stpos = -1 is undefined, and
\* assigning its .strokes throws a TypeError that leaves the history as is.
save(st, pos, bitmap, strks, evt) ==
  IF isContinuation(evt)
  THEN IF InRange(st, pos)
       THEN [stack |-> [st EXCEPT ![pos + 1].strokes = strks],
             stpos |-> pos, err |-> "none"]
       ELSE [stack |-> st, stpos |-> pos, err |-> "TypeError"]
  ELSE [stack |-> Append(st, [image |-> toDataURL(bitmap), strokes |-> strks]),
        stpos |-> pos + 1, err |-> "none"]

\* reset() leaving the cursor on the first index.
reset_cursorZero == [stack |-> << >>, stpos |-> 0]

\* this.reset
reset == [stack |-> << >>, stpos |-> -1]

\* prev() repainting the first entry when the cursor is already on it.
prev_repaintFirst ==
  IF stpos > 0
  THEN /\ stpos' = stpos - 1
       /\ pending' = pending (+) SetToBag({Image(At(stack, stpos - 1).image, stpos - 1)})
  ELSE IF stpos = 0
  THEN /\ stpos' = stpos
       /\ pending' = pending (+) SetToBag({Image(At(stack, stpos).image, stpos)})
  ELSE UNCHANGED <<stpos, pending>>

\* function prev()
prev ==
  IF stpos > 0
  THEN /\ stpos' = stpos - 1
       /\ pending' = pending (+) SetToBag({Image(At(stack, stpos - 1).image, stpos - 1)})
  ELSE UNCHANGED <<stpos, pending>>

\* next() jumping to the newest entry.
next_toNewest ==
  IF stpos < Len(stack) - 1
  THEN /\ stpos' = Len(stack) - 1
       /\ pending' = pending (+) SetToBag({Image(At(stack, Len(stack) - 1).image,
                                                Len(stack) - 1)})
  ELSE UNCHANGED <<stpos, pending>>

\* function next()
next ==
  IF stpos < Len(stack) - 1
  THEN /\ stpos' = stpos + 1
       /\ pending' = pending (+) SetToBag({Image(At(stack, stpos + 1).image, stpos + 1)})
  ELSE UNCHANGED <<stpos, pending>>

\* restore() installing the strokes of the entry the decode was issued for.
restore_issuedStrokes(snapshot) ==
  /\ canvas' = decodeBitmap(snapshot.src)
  /\ IF InRange(stack, snapshot.target)
     THEN /\ strokes' = At(stack, snapshot.target).strokes
          /\ last' = Op("restore", snapshot.target, stpos, "none")
     ELSE /\ strokes' = strokes
          /\ last' = Op("restore", snapshot.target, stpos, "TypeError")

\* function restore(snapshot): clear, drawImage, then data.strokes =
\* stack[stpos].strokes.slice().  With stpos = -1 the read of stack[stpos]
\* throws after the bitmap was already drawn.
restore(snapshot) ==
  /\ canvas' = decodeBitmap(snapshot.src)
  /\ IF InRange(stack, stpos)
     THEN /\ strokes' = At(stack, stpos).strokes
          /\ last' = Op("restore", snapshot.target, stpos, "none")
     ELSE /\ strokes' = strokes
          /\ last' = Op("restore", snapshot.target, stpos, "TypeError")

\* this.undo
undo ==
  /\ prev
  /\ last' = Op("undo", -1, stpos, "none")
  /\ savesOnly' = FALSE
  /\ UNCHANGED <<stack, canvas, strokes, listening, phase, drawn, captures>>

\* this.redo
redo ==
  /\ next
  /\ last' = Op("redo", IF last.op = "undo" THEN last.pos ELSE -1, stpos, "none")
  /\ savesOnly' = FALSE
  /\ UNCHANGED <<stack, canvas, strokes, listening, phase, drawn, captures>>

\* function keyManager(e)
keyManager(e) ==
  IF e.ctrlKey /\ e.which = 26 /\ e.shiftKey THEN redo
  ELSE IF e.ctrlKey /\ e.which = 26 THEN undo
  ELSE IF e.ctrlKey /\ e.which = 25 THEN redo
  ELSE /\ last' = Op("keypress", -1, stpos, "none")
       /\ UNCHANGED <<stack, stpos, canvas, strokes, pending, listening,
                      phase, drawn, captures, savesOnly>>

\* ------------------------------------------------------------------ actions
Init ==
  /\ stack = << >>
  /\ stpos = -1
  /\ canvas = Blank
  /\ strokes = << >>
  /\ pending = EmptyBag
  /\ listening = FALSE
  /\ phase = "new"
  /\ drawn = {}
  /\ captures = 0
  /\ savesOnly = TRUE
  /\ last = Op("new", -1, -1, "none")
  /\ scenario = 0

\* $.fn.sketchable.plugins.memento: config.memento.init().save()
Attach ==
  /\ phase = "new"
  /\ LET r == save(stack, stpos, canvas, strokes, NoEvent) IN
       /\ stack' = r.stack
       /\ stpos' = r.stpos
       /\ captures' = captures + 1
       /\ savesOnly' = TRUE
       /\ last' = Op("attach", -1, stpos, r.err)
  /\ listening' = TRUE
  /\ phase' = "live"
  /\ scenario' = Advance(scenario, last')
  /\ UNCHANGED <<canvas, strokes, pending, drawn>>

\* The host surface inks one more stroke: it appears in the bitmap and in
\* the live stroke list.
Draw(s) ==
  /\ phase = "live"
  /\ s \notin drawn
  /\ drawn' = drawn \cup {s}
  /\ canvas' = Append(canvas, s)
  /\ strokes' = Append(strokes, s)
  /\ last' = Op("draw", -1, stpos, "none")
  /\ scenario' = Advance(scenario, last')
  /\ UNCHANGED <<stack, stpos, pending, listening, phase, captures, savesOnly>>

\* The state change of one save(evt) call.
SaveCall(evt) ==
  /\ isContinuation(evt) \/ Len(stack) < MaxStack
  /\ LET r == save(stack, stpos, canvas, strokes, evt) IN
       /\ stack' = r.stack
       /\ stpos' = r.stpos
       /\ captures' = IF isContinuation(evt) THEN captures ELSE captures + 1
       /\ last' = Op("save", evt.identifier, stpos, r.err)
  /\ scenario' = Advance(scenario, last')
  /\ UNCHANGED <<canvas, strokes, pending, listening, phase, drawn, savesOnly>>

\* callbacks.mouseup: data.memento.save(evt)
MouseUp(evt) ==
  /\ phase = "live"
  /\ evt.present
  /\ SaveCall(evt)

\* api.save: data.memento.save()
Save ==
  /\ phase = "live"
  /\ SaveCall(NoEvent)

\* api.undo
Undo ==
  /\ phase = "live"
  /\ BagCardinality(pending) < MaxPending
  /\ undo
  /\ scenario' = Advance(scenario, last')

\* api.redo
Redo ==
  /\ phase = "live"
  /\ BagCardinality(pending) < MaxPending
  /\ redo
  /\ scenario' = Advance(scenario, last')

\* A keypress reaches keyManager while it is attached.
KeyPress(e) ==
  /\ listening
  /\ BagCardinality(pending) < MaxPending
  /\ keyManager(e)
  /\ scenario' = Advance(scenario, last')

\* snapshot.onload of a decode in flight: restore(this)
Complete(snapshot) ==
  /\ restore(snapshot)
  /\ pending' = pending (-) SetToBag({snapshot})
  /\ scenario' = Advance(scenario, last')
  /\ UNCHANGED <<stack, stpos, listening, phase, drawn, captures, savesOnly>>

\* memento.reset() called directly
Reset ==
  /\ phase = "live"
  /\ stack' = reset.stack
  /\ stpos' = reset.stpos
  /\ captures' = 0
  /\ savesOnly' = TRUE
  /\ last' = Op("reset", -1, stpos, "none")
  /\ scenario' = Advance(scenario, last')
  /\ UNCHANGED <<canvas, strokes, pending, listening, phase, drawn>>

\* callbacks.clear only resetting the history, without the capture.
Clear_resetOnly ==
  /\ phase = "live"
  /\ canvas' = Blank
  /\ strokes' = << >>
  /\ stack' = reset.stack
  /\ stpos' = reset.stpos
  /\ captures' = 0
  /\ savesOnly' = TRUE
  /\ last' = Op("clear", -1, stpos, "none")
  /\ scenario' = Advance(scenario, last')
  /\ UNCHANGED <<pending, listening, phase, drawn>>

\* The surface is cleared by the host, then callbacks.clear runs
\* data.memento.reset().save()
Clear ==
  /\ phase = "live"
  /\ canvas' = Blank
  /\ strokes' = << >>
  /\ LET r == save(reset.stack, reset.stpos, Blank, << >>, NoEvent) IN
       /\ stack' = r.stack
       /\ stpos' = r.stpos
       /\ captures' = 1
       /\ savesOnly' = TRUE
       /\ last' = Op("clear", -1, stpos, r.err)
  /\ scenario' = Advance(scenario, last')
  /\ UNCHANGED <<pending, listening, phase, drawn>>

\* callbacks.destroy: data.memento.destroy()
Destroy ==
  /\ phase = "live"
  /\ listening' = FALSE
  /\ stack' = reset.stack
  /\ stpos' = reset.stpos
  /\ captures' = 0
  /\ savesOnly' = TRUE
  /\ phase' = "destroyed"
  /\ last' = Op("destroy", -1, stpos, "none")
  /\ scenario' = Advance(scenario, last')
  /\ UNCHANGED <<canvas, strokes, pending, drawn>>

Next ==
  \/ Attach
  \/ \E s \in Strokes : Draw(s)
  \/ \E evt \in Events : MouseUp(evt)
  \/ Save
  \/ Undo
  \/ Redo
  \/ \E e \in Keys : KeyPress(e)
  \/ \E snapshot \in BagToSet(pending) : Complete(snapshot)
  \/ Reset
  \/ Clear
  \/ Destroy

Spec == Init /\ [][Next]_vars

\* The surface's life from attachment to destroy, driven by its events and
\* by undo, redo and save: no direct reset().
NextLive ==
  \/ Attach
  \/ \E s \in Strokes : Draw(s)
  \/ \E evt \in Events : MouseUp(evt)
  \/ Save
  \/ Undo
  \/ Redo
  \/ \E e \in Keys : KeyPress(e)
  \/ \E snapshot \in BagToSet(pending) : Complete(snapshot)
  \/ Clear
  \/ Destroy

SpecLive == Init /\ [][NextLive]_vars

\* Undo, redo and decode completions in every interleaving; the history is
\* built by captures made while no decode is in flight.
NextRace ==
  \/ Attach
  \/ \E s \in Strokes : Draw(s)
  \/ pending = EmptyBag /\ \E evt \in Events : MouseUp(evt)
  \/ pending = EmptyBag /\ Save
  \/ Undo
  \/ Redo
  \/ \E snapshot \in BagToSet(pending) : Complete(snapshot)

SpecRace == Init /\ [][NextRace]_vars

\* ------------------------------------------------------------------- claims
\* The entry at the cursor holds the bitmap and the strokes the surface shows.
Reflected ==
  /\ InRange(stack, stpos)
  /\ At(stack, stpos).image = toDataURL(canvas)
  /\ At(stack, stpos).strokes = strokes

\* The last operation was a save() that was not a continuation.
Pushed == last.op = "save" /\ last.id <= 0

\* The last operation was a continuation save().
Amended == last.op = "save" /\ last.id > 0

\* C1: a decode completion is applied to the surface only if the entry it was
\* issued for is still the entry at the cursor when it completes (stale decode
\* results are dropped).
C1_StaleDecodeDropped ==
  last.op = "restore" => last.id = stpos

\* C2: every restoration applied to the surface installs a bitmap and a stroke
\* list that come from one and the same history entry.
C2_RestoredInLockstep ==
  last.op = "restore" =>
    \E k \in 0..(Len(stack) - 1) :
      /\ At(stack, k).image = toDataURL(canvas)
      /\ At(stack, k).strokes = strokes

\* C3: a non-continuation capture appends exactly one snapshot and leaves the
\* cursor on it, cursor = entries.length - 1, in every state, also after undo().
C3_CaptureMovesCursorToEnd ==
  [][(last'.op = "save" /\ last'.id <= 0) =>
       (Len(stack') = Len(stack) + 1 /\ stpos' = Len(stack') - 1)]_vars

\* C4: the cursor is -1 if the stack is empty and otherwise is the index of the
\* entry whose bitmap and strokes the surface shows.  Read at the points where
\* the surface is settled: right after attachment, a capture, a clear or a
\* restoration, with no decode in flight.
C4_CursorIsShownEntry ==
  /\ stack = << >> => stpos = -1
  /\ ( /\ stack # << >>
       /\ pending = EmptyBag
       /\ last.op \in {"attach", "clear", "restore"} \/ Pushed )
     => Reflected

\* C5: the cursor is an integer with -1 <= cursor <= entries.length - 1, and it
\* is -1 exactly when entries is empty.
C5_CursorInRange ==
  /\ stpos \in Int
  /\ -1 <= stpos /\ stpos <= Len(stack) - 1
  /\ stpos = -1 <=> stack = << >>

\* C5 witness: a capture made after undo() left the cursor short of the end.
C5_Witness ==
  Pushed /\ stpos >= 0 /\ stpos < Len(stack) - 1
\* C6: in a run of save() calls only, from a freshly initialised or freshly
\* reset history, entries.length is the number of non-continuation saves made
\* since then, and the cursor is entries.length - 1 right after each
\* non-continuation save.
C6_LengthCountsCaptures ==
  savesOnly =>
    /\ Len(stack) = captures
    /\ Pushed => stpos = Len(stack) - 1

\* C6 witness: a non-continuation save after an earlier continuation save, in
\* a run of saves only.
C6_Witness ==
  /\ savesOnly /\ Pushed /\ Len(stack) >= 2
  /\ \E k \in 0..(Len(stack) - 1) :
       At(stack, k).strokes # decodeBitmap(At(stack, k).image)

\* C7: undo() followed at once by redo(), with the cursor inside
\* [1, entries.length - 2], puts the cursor back where it was and leaves
\* entries unchanged; the decode redo() issues is for the entry that was
\* current before the undo().
C7_UndoRedoRoundTrip ==
  [][ /\ last'.op = "undo" => stack' = stack
      /\ ( /\ last.op = "undo"
           /\ last.pos \in 1..(Len(stack) - 2)
           /\ last'.op = "redo" )
         => /\ stpos' = last.pos
            /\ stack' = stack
            /\ pending' = pending (+)
                 SetToBag({Image(At(stack, last.pos).image, last.pos)}) ]_vars

\* C7 witness: redo() right after an undo() that started inside the range.
C7_Witness ==
  /\ last.op = "redo"
  /\ last.id \in 1..(Len(stack) - 2)
  /\ stpos = last.id

\* C8: undo() with cursor <= 0 and redo() with cursor = entries.length - 1
\* change nothing: cursor, entries, the decodes in flight and the surface stay
\* as they are and no error is raised.
C8_BoundaryNoOps ==
  [][ ( \/ last'.op = "undo" /\ stpos <= 0
        \/ last'.op = "redo" /\ stpos = Len(stack) - 1 )
      => /\ UNCHANGED <<stack, stpos, pending, canvas, strokes>>
         /\ last'.err = "none" ]_vars

\* C8 witness: undo() was called with the cursor on the first entry while a
\* later entry existed.
C8_Witness ==
  last.op = "undo" /\ last.pos = 0 /\ Len(stack) >= 2

\* C9: reset(), called in any state, leaves cursor = -1 and entries empty.
C9_ResetEmpties ==
  last.op \in {"reset", "destroy"} => (stpos = -1 /\ Len(stack) = 0)

\* C9 witness: reset() was called with the cursor past the first entry.
C9_Witness ==
  last.op = "reset" /\ last.pos >= 1

\* C10: a continuation capture on a non-empty stack keeps entries.length and
\* the cursor, keeps every image and the strokes of every entry but the one at
\* the cursor, and replaces that entry's strokes by the surface's strokes.
C10_ContinuationAmendsCursorEntry ==
  [][ (last'.op = "save" /\ last'.id > 0 /\ stack # << >>)
      => /\ Len(stack') = Len(stack)
         /\ stpos' = stpos
         /\ last'.err = "none"
         /\ \A k \in 0..(Len(stack) - 1) :
              /\ At(stack', k).image = At(stack, k).image
              /\ k # stpos => At(stack', k).strokes = At(stack, k).strokes
         /\ At(stack', stpos).strokes = strokes ]_vars

\* C10 witness: a continuation capture replaced a non-empty stroke list by the
\* empty one, with other entries around it.
C10_Witness ==
  /\ Amended /\ Len(stack) >= 2
  /\ At(stack, stpos).strokes = << >>
  /\ decodeBitmap(At(stack, stpos).image) # << >>
\* C11: a save with continuation semantics arriving on an empty history
\* (cursor = -1) is treated as a fresh capture: it leaves one entry, cursor 0,
\* and raises no error.
C11_ContinuationOnEmptyIsCapture ==
  (Amended /\ last.pos = -1) =>
    (Len(stack) = 1 /\ stpos = 0 /\ last.err = "none")

\* C12: the history is never empty while the surface is live: attachment and
\* a clear event each leave exactly one entry with cursor 0, and between
\* attachment and destroy, under gesture ends, clear, undo, redo and save,
\* entries.length >= 1 and cursor >= 0.
C12_NeverEmptyWhileLive ==
  /\ phase = "live" => (Len(stack) >= 1 /\ stpos >= 0)
  /\ last.op \in {"attach", "clear"} => (Len(stack) = 1 /\ stpos = 0)
  /\ last.op = "clear" =>
       At(stack, 0) = [image |-> toDataURL(Blank), strokes |-> << >>]

\* C12 witness: a clear event on a history of several entries, cursor past the
\* first.
C12_Witness ==
  last.op = "clear" /\ last.pos >= 1 /\ phase = "live"

\* C13: the walk-through holds step by step: attachment gives length 1,
\* cursor 0; a primary-pointer release gives length 2, cursor 1; a second
\* pointer's release keeps both and updates entry 1's strokes; undo() gives
\* cursor 0; a second undo() changes nothing; redo() gives cursor 1; a clear
\* event gives length 1, cursor 0 and a fresh blank snapshot.
C13_Scenario ==
  /\ scenario = 1 => (Len(stack) = 1 /\ stpos = 0)
  /\ scenario = 2 => (Len(stack) = 2 /\ stpos = 1)
  /\ scenario = 3 => (Len(stack) = 2 /\ stpos = 1)
  /\ (scenario = 3 /\ last.op = "save") => At(stack, 1).strokes = strokes
  /\ scenario = 4 => (Len(stack) = 2 /\ stpos = 0)
  /\ scenario = 5 => (Len(stack) = 2 /\ stpos = 0)
  /\ scenario = 6 => (Len(stack) = 2 /\ stpos = 1)
  /\ scenario = 7 =>
       /\ Len(stack) = 1 /\ stpos = 0
       /\ At(stack, 0) = [image |-> toDataURL(Blank), strokes |-> << >>]

\* C13 witness: the walk-through was followed to its last step, with a stroke
\* drawn on the way.
C13_Witness ==
  scenario = 7 /\ drawn # {}

\* C14: save(evt) is a continuation capture exactly when an event is given and
\* its identifier is greater than 0; without an event, or with identifier 0 or
\* none, it appends a snapshot of the surface.
C14_ContinuationIffIdentifierPositive ==
  [][ last'.op = "save" =>
        IF last'.id > 0
        THEN Len(stack') = Len(stack)
        ELSE /\ Len(stack') = Len(stack) + 1
             /\ stack'[Len(stack')] =
                  [image |-> toDataURL(canvas), strokes |-> strokes] ]_vars

\* C14 witness: a release event with identifier 0 appended a snapshot to a
\* history that already had one.
C14_Witness ==
  last.op = "save" /\ last.id = 0 /\ last.err = "none" /\ Len(stack) >= 2

\* C15: a non-continuation capture discards nothing: every entry that existed
\* keeps its index and contents, also the entries ahead of the cursor, and the
\* new snapshot is the last entry.
C15_CaptureKeepsHistory ==
  [][ (last'.op = "save" /\ last'.id <= 0) =>
        /\ Len(stack') = Len(stack) + 1
        /\ SubSeq(stack', 1, Len(stack)) = stack
        /\ stack'[Len(stack')] =
             [image |-> toDataURL(canvas), strokes |-> strokes] ]_vars

\* C15 witness: a capture made with the cursor rewound, entries ahead of it.
C15_Witness ==
  Pushed /\ last.pos >= 0 /\ last.pos < Len(stack) - 2

\* C16: between resets, undo(), redo(), non-continuation save() and decode
\* completions change neither image nor strokes of an existing entry, and no
\* operation changes an existing entry's image.
C16_SnapshotsImmutable ==
  [][ last'.op \notin {"reset", "clear", "destroy"} =>
        \A k \in 0..(Len(stack) - 1) :
          /\ k <= Len(stack') - 1
          /\ At(stack', k).image = At(stack, k).image
          /\ ~(last'.op = "save" /\ last'.id > 0)
               => At(stack', k).strokes = At(stack, k).strokes ]_vars

\* C16 witness: a decode completion ran on a history of several entries, one
\* of which a continuation capture had amended earlier.
C16_Witness ==
  /\ last.op = "restore" /\ last.err = "none" /\ Len(stack) >= 2
  /\ \E k \in 0..(Len(stack) - 1) :
       At(stack, k).strokes # decodeBitmap(At(stack, k).image)

\* C17: the entry a continuation capture amends is always the most recently
\* captured snapshot, the last entry of entries, also when undo() or redo() came
\* between the gesture's first capture and the continuation.
C17_ContinuationAmendsNewest ==
  [][ (last'.op = "save" /\ last'.id > 0 /\ stack # << >>) =>
        /\ Len(stack') = Len(stack)
        /\ At(stack', Len(stack) - 1).strokes = strokes
        /\ \A k \in 0..(Len(stack) - 2) :
             At(stack', k).strokes = At(stack, k).strokes ]_vars

\* C18: whenever a decode completes and restore runs, the cursor is a valid
\* index into entries, so restore reads no missing entry and raises nothing.
C18_RestoreReadsValidEntry ==
  last.op = "restore" => (InRange(stack, stpos) /\ last.err = "none")

\* C19: right after a decode completion is applied on a non-empty stack, the
\* surface's stroke list equals entries[cursor].strokes for the cursor at
\* completion time, whichever call issued the decode.
C19_RestoredStrokesAreCursorEntry ==
  (last.op = "restore" /\ stack # << >>) =>
    (InRange(stack, stpos) /\ strokes = At(stack, stpos).strokes)

\* C19 witness: a decode issued for another index than the cursor completed,
\* and the strokes installed differ from what the decoded bitmap shows.
C19_Witness ==
  /\ last.op = "restore" /\ stack # << >>
  /\ last.id # stpos
  /\ strokes # canvas
====
